---- MODULE Spec2Model ----
(***************************************************************************)
(* SOCKS5 client of mosdns-x: the address codec (SocksAddr) and the        *)
(* session negotiator (SocksDialer.DialContext).                           *)
(*                                                                         *)
(* Texts (Go strings) and wire data are sequences of byte values; a text   *)
(* is the sequence of its ASCII codes.                                     *)
(***************************************************************************)
EXTENDS Integers, Sequences, FiniteSets, TLC

\* ------------------------------------------------------------ constants

Version5 == 5
MethodNoAuth == 0
MethodUserPass == 2
AuthSuccessed == 0
Reversed == 0
TypeIPv4 == 1
TypeFqdn == 3
TypeIPv6 == 4
CMDCONNECT == 1
CMDBIND == 2
CMDASSOCIATE == 3

\* ------------------------------------------------------------ bounds

\* How many DialContext calls the caller makes on the one dialer.
MaxCalls == 2

\* ------------------------------------------------------------ texts

Colon == <<58>>                     \* ":"
Dot == <<46>>                       \* "."
LBracket == <<91>>                  \* "["
RBracket == <<93>>                  \* "]"
Space == <<32>>                     \* " "
Plus == <<43>>                      \* "+"
Minus == <<45>>                     \* "-"
Digits == {<<48>>, <<49>>, <<50>>, <<51>>, <<52>>, <<53>>, <<54>>, <<55>>, <<56>>, <<57>>}

\* Does text t contain byte c (a one-byte text)?
Contains(t, c) == \E i \in 1..Len(t) : t[i] = c[1]

\* Index of the first / last occurrence of c in t, 0 when there is none.
IndexByte(t, c) ==
    IF Contains(t, c) THEN CHOOSE i \in 1..Len(t) : t[i] = c[1] /\ \A j \in 1..(i-1) : t[j] # c[1]
    ELSE 0

LastIndexByte(t, c) ==
    IF Contains(t, c) THEN CHOOSE i \in 1..Len(t) : t[i] = c[1] /\ \A j \in (i+1)..Len(t) : t[j] # c[1]
    ELSE 0

\* Decimal rendering of a natural number (fmt %d, strconv.Itoa).
RECURSIVE Dec(_)
Dec(n) == IF n < 10 THEN <<48 + n>> ELSE Dec(n \div 10) \o <<48 + (n % 10)>>

AllDigits(t) == \A i \in 1..Len(t) : <<t[i]>> \in Digits

\* Value of a text of decimal digits.
RECURSIVE DigitsVal(_)
DigitsVal(t) ==
    IF t = <<>> THEN 0
    ELSE 10 * DigitsVal(SubSeq(t, 1, Len(t) - 1)) + (t[Len(t)] - 48)

\* strconv.ParseUint(t, 10, 16): digits only, no sign, at most 65535.
ParseUint16(t) ==
    IF t # <<>> /\ AllDigits(t) /\ Len(t) <= 6 /\ DigitsVal(t) <= 65535
    THEN [ok |-> TRUE, val |-> DigitsVal(t)]
    ELSE [ok |-> FALSE, val |-> 0]

\* strconv.Atoi(t): an optional sign, then digits.
Atoi(t) ==
    LET signed == t # <<>> /\ (<<t[1]>> = Plus \/ <<t[1]>> = Minus)
        body == IF signed THEN Tail(t) ELSE t
    IN  IF body # <<>> /\ AllDigits(body) /\ Len(body) <= 6
        THEN [ok |-> TRUE,
              val |-> IF signed /\ <<t[1]>> = Minus THEN 0 - DigitsVal(body) ELSE DigitsVal(body)]
        ELSE [ok |-> FALSE, val |-> 0]

\* ------------------------------------------------------------ netip.Addr
\* An Addr is its byte sequence: <<>> the zero Addr, 4 bytes IPv4, 16 bytes
\* IPv6.

ZeroAddr == <<>>

Is4(a) == Len(a) = 4
Is6(a) == Len(a) = 16

Is4In6(a) ==
    /\ Len(a) = 16
    /\ \A i \in 1..10 : a[i] = 0
    /\ a[11] = 255 /\ a[12] = 255

Unmap(a) == IF Is4In6(a) THEN SubSeq(a, 13, 16) ELSE a

IsUnspecified(a) ==
    \/ a = <<0, 0, 0, 0>>
    \/ a = <<0, 0, 0, 0, 0, 0, 0, 0, 0, 0, 0, 0, 0, 0, 0, 0>>

\* The IPv6 addresses of the model with their canonical text.
V6Loopback == <<0, 0, 0, 0, 0, 0, 0, 0, 0, 0, 0, 0, 0, 0, 0, 1>>
V6Any == <<0, 0, 0, 0, 0, 0, 0, 0, 0, 0, 0, 0, 0, 0, 0, 0>>
V6Mapped == <<0, 0, 0, 0, 0, 0, 0, 0, 0, 0, 255, 255, 10, 0, 0, 1>>

V6Texts ==
    { <<V6Loopback, <<58, 58, 49>> >>,                                   \* "::1"
      <<V6Any, <<58, 58>> >>,                                            \* "::"
      <<V6Mapped, <<58, 58, 102, 102, 102, 102, 58, 49, 48, 46, 48, 46, 48, 46, 49>> >> }
                                                                         \* "::ffff:10.0.0.1"

V4Addrs == { <<10, 0, 0, 1>>, <<0, 0, 0, 0>>, <<10, 0, 0, 2>> }

InvalidIPText == <<105, 110, 118, 97, 108, 105, 100, 32, 73, 80>>       \* "invalid IP"

\* netip.Addr.String.
AddrString(a) ==
    IF a = ZeroAddr THEN InvalidIPText
    ELSE IF Is4(a) THEN Dec(a[1]) \o Dot \o Dec(a[2]) \o Dot \o Dec(a[3]) \o Dot \o Dec(a[4])
    ELSE (CHOOSE e \in V6Texts : e[1] = a)[2]

\* netip.ParseAddr over the address literals of the model.
AddrLiterals ==
    { <<AddrString(a), a>> : a \in V4Addrs } \cup { <<e[2], e[1]>> : e \in V6Texts }

ParseAddr(t) ==
    IF \E e \in AddrLiterals : e[1] = t
    THEN [ok |-> TRUE, addr |-> (CHOOSE e \in AddrLiterals : e[1] = t)[2]]
    ELSE [ok |-> FALSE, addr |-> ZeroAddr]

\* netip.ParseAddrPort: split at the last colon, strip brackets, parse the
\* port as uint16 and the address; brackets are required for IPv6 and
\* refused for IPv4.
ParseAddrPort(s) ==
    LET i == LastIndexByte(s, Colon)
        ip0 == SubSeq(s, 1, i - 1)
        port == SubSeq(s, i + 1, Len(s))
        v6 == ip0 # <<>> /\ <<ip0[1]>> = LBracket
        closed == Len(ip0) >= 2 /\ <<ip0[Len(ip0)]>> = RBracket
        ip == IF v6 THEN SubSeq(ip0, 2, Len(ip0) - 1) ELSE ip0
        p == ParseUint16(port)
        a == ParseAddr(ip)
        bad == [ok |-> FALSE, addr |-> ZeroAddr, port |-> 0]
    IN  IF i = 0 \/ ip0 = <<>> \/ port = <<>> THEN bad
        ELSE IF v6 /\ ~closed THEN bad
        ELSE IF ~p.ok \/ ~a.ok THEN bad
        ELSE IF (v6 /\ Is4(a.addr)) \/ (~v6 /\ Is6(a.addr)) THEN bad
        ELSE [ok |-> TRUE, addr |-> a.addr, port |-> p.val]

\* ------------------------------------------------------------ SocksAddr

SocksAddrOf(addr, fqdn, port) == [addr |-> addr, fqdn |-> fqdn, port |-> port]

ZeroSocksAddr == SocksAddrOf(ZeroAddr, <<>>, 0)

ParseSocksAddr(s) ==
    LET ap == ParseAddrPort(s)
        i == IndexByte(s, Colon)
        addr == SubSeq(s, 1, i - 1)
        port == Atoi(SubSeq(s, i + 1, Len(s)))
    IN  IF ap.ok THEN
            IF Is4In6(ap.addr)
            THEN [ok |-> TRUE, val |-> SocksAddrOf(Unmap(ap.addr), <<>>, ap.port)]
            ELSE [ok |-> TRUE, val |-> SocksAddrOf(ap.addr, <<>>, ap.port)]
        ELSE IF ~Contains(s, Colon) THEN [ok |-> FALSE, val |-> ZeroSocksAddr]
        ELSE IF Len(addr) > 255 THEN [ok |-> FALSE, val |-> ZeroSocksAddr]
        ELSE IF ~port.ok \/ port.val < 0 \/ port.val > 65535
             THEN [ok |-> FALSE, val |-> ZeroSocksAddr]
        ELSE [ok |-> TRUE, val |-> SocksAddrOf(ZeroAddr, addr, port.val)]

SocksAddrFromFqdnPort(fqdn, port) == SocksAddrOf(ZeroAddr, fqdn, port)

SocksAddrFromAddrPort(addr, port) == SocksAddrOf(addr, <<>>, port)

SetAddr(s, addr) == [s EXCEPT !.addr = IF Is4In6(addr) THEN Unmap(addr) ELSE addr]

SetFqdn(s, fqdn) == [s EXCEPT !.fqdn = fqdn]

SetPort(s, port) == [s EXCEPT !.port = port]

\* SocksAddr.String: "%s:%d" of the name when there is one, else "%v:%d" of
\* the address (no brackets are added around an IPv6 address).
String(s) ==
    IF Len(s.fqdn) > 0 THEN s.fqdn \o Colon \o Dec(s.port)
    ELSE AddrString(s.addr) \o Colon \o Dec(s.port)

\* binary.BigEndian.AppendUint16.
BigEndian16(port) == <<port \div 256, port % 256>>

\* binary.BigEndian.Uint16.
Uint16(raw) == raw[1] * 256 + raw[2]

\* netip.Addr.AsSlice.
AsSlice(a) == a

\* SocksAddr.Slice: byte(len(fqdn)) keeps the low 8 bits of the length.
Slice(s) ==
    LET body == IF Len(s.fqdn) > 0 THEN <<TypeFqdn, Len(s.fqdn) % 256>> \o s.fqdn
                ELSE IF Is4(s.addr) THEN <<TypeIPv4>> \o AsSlice(s.addr)
                ELSE <<TypeIPv6>> \o AsSlice(s.addr)
    IN  body \o BigEndian16(s.port)

\* ------------------------------------------------------------ net.Dialer

\* net.SplitHostPort: the port follows the last colon; a host that holds a
\* colon must be bracketed.
SplitHostPort(t) ==
    LET i == LastIndexByte(t, Colon)
        bracket == t # <<>> /\ <<t[1]>> = LBracket
        end == IndexByte(t, RBracket)
        host == IF bracket THEN SubSeq(t, 2, end - 1) ELSE SubSeq(t, 1, i - 1)
        j == IF bracket THEN 2 ELSE 1
        k == IF bracket THEN end + 1 ELSE 1
        bad == [ok |-> FALSE, host |-> <<>>, port |-> <<>>]
    IN  IF i = 0 THEN bad
        ELSE IF bracket /\ (end = 0 \/ end + 1 # i) THEN bad
        ELSE IF ~bracket /\ Contains(host, Colon) THEN bad
        ELSE IF Contains(SubSeq(t, j, Len(t)), LBracket) THEN bad
        ELSE IF Contains(SubSeq(t, k, Len(t)), RBracket) THEN bad
        ELSE [ok |-> TRUE, host |-> host, port |-> SubSeq(t, i + 1, Len(t))]

\* The endpoint a dial of text t goes to, when the text denotes one: host
\* and numeric port split, and a host that is an address literal or a name
\* a resolver accepts (no name holds a space).
DialTarget(t) ==
    LET hp == SplitHostPort(t)
        p == ParseUint16(hp.port)
    IN  IF hp.ok /\ p.ok /\ ~Contains(hp.host, Space)
        THEN [ok |-> TRUE, host |-> hp.host, port |-> p.val]
        ELSE [ok |-> FALSE, host |-> <<>>, port |-> 0]

\* Outcomes of net.Dialer.DialContext on text t: it fails on a text that
\* denotes no endpoint, and the network decides otherwise.
DialOutcomes(t) == IF DialTarget(t).ok THEN {TRUE, FALSE} ELSE {FALSE}

\* The dynamic types net.Dialer hands back for a "udp" dial.
UDPHandleKinds == {"UDPConn"}

NoSock == [state |-> "none", host |-> <<>>, port |-> 0]

OpenSock(t) == [state |-> "open", host |-> DialTarget(t).host, port |-> DialTarget(t).port]

\* Outcomes of conn.Read into a buffer of w bytes when the peer's next
\* bytes are one of cands: a transport error, or n <= w bytes delivered.
\* A read into an empty buffer returns 0 bytes and no error.
ReadOutcomes(cands, w) ==
    IF w = 0 THEN {[n |-> 0, data |-> <<>>, err |-> FALSE]}
    ELSE {[n |-> 0, data |-> <<>>, err |-> TRUE]}
         \cup {[n |-> k, data |-> SubSeq(c, 1, k), err |-> FALSE] : c \in cands, k \in 0..w}

\* make([]byte, w) after a read delivered data into it.
Buf(data, w) == [i \in 1..w |-> IF i <= Len(data) THEN data[i] ELSE 0]

\* ------------------------------------------------------------ errors

Err(msg, val, cause) == [msg |-> msg, val |-> val, cause |-> cause]

NoErr == Err("", <<>>, "")

\* fmt.Errorf("...: %v", err) of a transport error.
Wrap(msg) == Err(msg, <<>>, "transport")

\* ------------------------------------------------------------ inputs

Networks == {"tcp", "udp", "ip", "tcp4"}

ProxyTexts ==
    { <<49, 48, 46, 48, 46, 48, 46, 50, 58, 49, 48, 56, 48>>,           \* "10.0.0.2:1080"
      <<112, 114, 111, 120, 121, 58, 49, 48, 56, 48>>,                  \* "proxy:1080"
      <<91, 58, 58, 49, 93, 58, 49, 48, 56, 48>> }                      \* "[::1]:1080"

TargetTexts ==
    { <<49, 48, 46, 48, 46, 48, 46, 49, 58, 56, 48>>,                   \* "10.0.0.1:80"
      <<48, 46, 48, 46, 48, 46, 48, 58, 53, 51>>,                       \* "0.0.0.0:53"
      <<49, 48, 46, 48, 46, 48, 46, 49, 58, 48>>,                       \* "10.0.0.1:0"
      <<97, 46, 98, 58, 53, 51>>,                                       \* "a.b:53"
      <<91, 58, 58, 49, 93, 58, 56, 48>>,                               \* "[::1]:80"
      <<91, 58, 58, 102, 102, 102, 102, 58, 49, 48, 46, 48, 46, 48, 46, 49, 93, 58, 56, 48>>,
                                                                        \* "[::ffff:10.0.0.1]:80"
      <<58, 58, 49, 58, 56, 48>>,                                       \* "::1:80"
      <<110, 111, 99, 111, 108, 111, 110>>,                             \* "nocolon"
      <<91, 58, 58, 93, 58, 53, 51>>,                               \* "[::]:53"
      <<97, 46, 98, 58, 48>> }                                        \* "a.b:0"

\* What the proxy may send.
NegoReplies == { <<v, m>> : v \in {4, 5}, m \in {0, 2, 255} }

StatusBytes == 0..10 \cup {255}

ReplyHeaders ==
    { <<v, st, rsv, atyp>> : v \in {4, 5}, st \in StatusBytes, rsv \in {0, 1}, atyp \in {1, 2, 3, 4} }

V4Bodies == V4Addrs

V6Bodies == {V6Loopback, V6Any, V6Mapped}

FqdnLens == { <<0>>, <<1>>, <<3>>, <<255>> }

\* Name bodies of n bytes: "aaa...", and for 3 bytes also "a.b" and "a:b".
FqdnBodies(n) ==
    { [i \in 1..n |-> 97] } \cup (IF n = 3 THEN { <<97, 46, 98>>, <<97, 58, 98>> } ELSE {})

RawPorts == { <<0, 0>>, <<0, 53>>, <<4, 56>>, <<255, 255>> }

\* ------------------------------------------------------------ state

VARIABLES
    daddr,      \* SocksDialer.addr: the proxy's SocksAddr
    calls,      \* DialContext calls made so far
    pc,         \* where the current call stands
    network,    \* the call's network argument
    target,     \* the call's addr argument
    tcp,        \* conn: the TCP connection to the proxy opened by the call
    udp,        \* c: the UDP socket opened by the call
    trace,      \* the transport operations of the call, in order
    negoRes,    \* negotiation reply buffer
    authRes,    \* command reply header buffer
    addrLen,    \* FQDN length buffer
    sAddr,      \* the parsed target
    bindAddr,   \* the bound address decoded so far
    spc,        \* the SocksPacketConn built by the call
    ret,        \* the call's result: connection and error
    parked,     \* the locals of a second call running on the same dialer
    obj,        \* a SocksAddr in the hands of a user of the codec
    hist,       \* how obj was built and mutated
    out         \* what Slice and String gave for obj, and what reading them back gave

vars == <<daddr, calls, pc, network, target, tcp, udp, trace, negoRes, authRes,
          addrLen, sAddr, bindAddr, spc, ret, parked, obj, hist, out>>

\* The codec user's variables.
codecVars == <<obj, hist, out>>

NoSpc == [conn |-> "nil", inner |-> "nil", cache |-> 0, hasDest |-> FALSE, dest |-> ZeroSocksAddr]

NoRet == [conn |-> "nil", err |-> NoErr]

DialEv(net, t, ok) == [op |-> "dial", net |-> net, data |-> t, want |-> 0, ok |-> ok]
WriteEv(data, ok) == [op |-> "write", net |-> "tcp", data |-> data, want |-> 0, ok |-> ok]
ReadEv(r, w) == [op |-> "read", net |-> "tcp", data |-> r.data, want |-> w, ok |-> ~r.err]

\* The locals of a call that has not started.
IdleCall ==
    [pc |-> "idle", network |-> "", target |-> <<>>, tcp |-> NoSock, udp |-> NoSock,
     trace |-> <<>>, negoRes |-> Buf(<<>>, 2), authRes |-> Buf(<<>>, 4),
     addrLen |-> Buf(<<>>, 1), sAddr |-> ZeroSocksAddr, bindAddr |-> ZeroSocksAddr,
     spc |-> NoSpc, ret |-> NoRet]

\* The locals of the running call.
ThisCall ==
    [pc |-> pc, network |-> network, target |-> target, tcp |-> tcp, udp |-> udp,
     trace |-> trace, negoRes |-> negoRes, authRes |-> authRes, addrLen |-> addrLen,
     sAddr |-> sAddr, bindAddr |-> bindAddr, spc |-> spc, ret |-> ret]

\* No SocksAddr has been built, nothing serialised.
NoHist == [by |-> "none", text |-> <<>>, last |-> "none", id |-> <<>>, n |-> 0]

NoOut ==
    [sliced |-> FALSE, slice |-> <<>>, dec |-> [ok |-> FALSE, val |-> ZeroSocksAddr, used |-> 0],
     rendered |-> FALSE, str |-> <<>>, re |-> [ok |-> FALSE, val |-> ZeroSocksAddr]]

CodecIdle ==
    /\ obj = ZeroSocksAddr
    /\ hist = NoHist
    /\ out = NoOut

NoCall ==
    /\ calls = 0
    /\ pc = IdleCall.pc
    /\ network = IdleCall.network
    /\ target = IdleCall.target
    /\ tcp = IdleCall.tcp
    /\ udp = IdleCall.udp
    /\ trace = IdleCall.trace
    /\ negoRes = IdleCall.negoRes
    /\ authRes = IdleCall.authRes
    /\ addrLen = IdleCall.addrLen
    /\ sAddr = IdleCall.sAddr
    /\ bindAddr = IdleCall.bindAddr
    /\ spc = IdleCall.spc
    /\ ret = IdleCall.ret
    /\ parked = IdleCall

\* newSocksDialer succeeded on one of the proxy texts; no call is running.
Init ==
    /\ daddr \in { ParseSocksAddr(t).val : t \in { u \in ProxyTexts : ParseSocksAddr(u).ok } }
    /\ NoCall
    /\ CodecIdle

\* return nil, err
Fail(e) ==
    /\ pc' = "done"
    /\ ret' = [conn |-> "nil", err |-> e]

\* The call goes on to its next step.
Goto(next) ==
    /\ pc' = next
    /\ UNCHANGED ret

\* ------------------------------------------------------------ DialContext
\* The pure steps of DialContext, each the code between two transport
\* operations; the actions below apply them.

\* Mutant: the check takes "tcp4" for a supported network.
NetworkSupported_Tcp4(n) == n \in {"tcp", "udp", "tcp4"}

NetworkSupported(n) == ~(n # "tcp" /\ n # "udp")

NegoReq == <<Version5, 1, MethodNoAuth>>

\* Mutant: the non-"tcp" branch selects BIND.
CmdOf_Bind(n) == IF n = "tcp" THEN CMDCONNECT ELSE CMDBIND

CmdOf(n) == IF n = "tcp" THEN CMDCONNECT ELSE CMDASSOCIATE

ReqTypeOf(n) == IF n = "tcp" THEN "connect" ELSE "associate"

AuthReq(n, a) == <<Version5, CmdOf(n), Reversed>> \o Slice(a)

\* Mutant: status 9 falls through to the default.
handleAssociateStatus_No9(status) ==
    CASE status = 1 -> "associate failed: general socks server failure"
      [] status = 2 -> "connection not allowed by ruleset"
      [] status = 3 -> "network unreachable"
      [] status = 4 -> "host unreachable"
      [] status = 5 -> "connection refused"
      [] status = 6 -> "ttl expired"
      [] status = 7 -> "command not supported"
      [] status = 8 -> "address type not supported"
      [] OTHER -> "unassigned"

handleAssociateStatus(status) ==
    CASE status = 1 -> "associate failed: general socks server failure"
      [] status = 2 -> "connection not allowed by ruleset"
      [] status = 3 -> "network unreachable"
      [] status = 4 -> "host unreachable"
      [] status = 5 -> "connection refused"
      [] status = 6 -> "ttl expired"
      [] status = 7 -> "command not supported"
      [] status = 8 -> "address type not supported"
      [] status = 9 -> "host unreachable"
      [] OTHER -> "unassigned"

\* Mutant: the version of the negotiation reply is not checked.
NegoReadErr_NoVersionCheck(r) ==
    IF r.err THEN Wrap("receive negotiation response failed: ")
    ELSE IF r.n < 2 THEN Err("negotiation response too short", <<>>, "")
    ELSE NoErr

\* Lines 57-66: the checks on the negotiation reply. The version reported
\* is negoReq[0], the version the client sent.
NegoReadErr(r) ==
    IF r.err THEN Wrap("receive negotiation response failed: ")
    ELSE IF r.n < 2 THEN Err("negotiation response too short", <<>>, "")
    ELSE IF Buf(r.data, 2)[1] # 5
         THEN Err("unsupported negotiation response version: ", <<NegoReq[1]>>, "")
    ELSE NoErr

\* Lines 76-79.
ParseTargetErr(t) ==
    IF ~ParseSocksAddr(t).ok THEN Err("parse socks addr failed: ", <<>>, "parse") ELSE NoErr

\* Lines 86-101: the checks on the command reply header.
AuthReadErr(r, n) ==
    LET res == Buf(r.data, 4)
        reqType == ReqTypeOf(n)
    IN  IF r.err THEN Wrap("receive " \o reqType \o " response failed: ")
        ELSE IF r.n < 4 THEN Err(reqType \o " response too short", <<>>, "")
        ELSE IF res[1] # Version5
             THEN Err("unsupported " \o reqType \o " response version: ", <<NegoReq[1]>>, "")
        ELSE IF res[2] # AuthSuccessed
             THEN Err(reqType \o " failed: " \o handleAssociateStatus(res[2]), <<>>, "")
        ELSE IF res[3] # Reversed
             THEN Err("invalid " \o reqType \o " response reserved byte: ", <<res[3]>>, "")
        ELSE IF res[4] \notin {TypeIPv4, TypeFqdn, TypeIPv6}
             THEN Err("unsupported bind address type: ", <<res[4]>>, "")
        ELSE NoErr

\* Mutant: an IPv6 reply is read as an IPv4 one.
BodyStep_IPv6AsIPv4(atyp) ==
    CASE atyp = TypeIPv4 -> "readIPv4"
      [] atyp = TypeFqdn -> "readFqdnLen"
      [] atyp = TypeIPv6 -> "readIPv4"

\* Line 103: the read that follows the header, by address type.
BodyStep(atyp) ==
    CASE atyp = TypeIPv4 -> "readIPv4"
      [] atyp = TypeFqdn -> "readFqdnLen"
      [] atyp = TypeIPv6 -> "readIPv6"

\* netip.AddrFromSlice.
AddrFromSliceOk(b) == Len(b) = 4 \/ Len(b) = 16

\* Lines 106-117.
IPv4ReadErr(r) ==
    IF r.err THEN Wrap("parse ipv4 bind address failed: ")
    ELSE IF r.n < 4
         THEN Err("parse ipv4 bind address failed: bind address too short", <<>>, "")
    ELSE IF ~AddrFromSliceOk(Buf(r.data, 4))
         THEN Err("parse ipv4 bind address failed: invalid ipv4 address", <<>>, "")
    ELSE NoErr

\* Lines 120-126: the check is on the count of bytes read, not on the
\* length the byte declares.
FqdnLenReadErr(r) ==
    IF r.err THEN Wrap("parse fqdn bind address length failed: ")
    ELSE IF r.n = 0 THEN Err("parse fqdn bind address failed: length is zero", <<>>, "")
    ELSE NoErr

\* Lines 128-134.
FqdnReadErr(r, len) ==
    IF r.err THEN Wrap("parse fqdn bind address failed: ")
    ELSE IF r.n < len
         THEN Err("parse fqdn bind address failed: bind address too short", <<>>, "")
    ELSE NoErr

\* Lines 138-149.
IPv6ReadErr(r) ==
    IF r.err THEN Wrap("parse ipv6 bind address failed: ")
    ELSE IF r.n < 16
         THEN Err("parse ipv6 bind address failed: bind address too short", <<>>, "")
    ELSE IF ~AddrFromSliceOk(Buf(r.data, 16))
         THEN Err("parse ipv6 bind address failed: invalid ipv6 address", <<>>, "")
    ELSE NoErr

\* Mutant: the count of port bytes read is not checked.
PortReadErr_NoShortCheck(r) ==
    IF r.err THEN Wrap("parse bind port failed: ") ELSE NoErr

\* Lines 154-160.
PortReadErr(r) ==
    IF r.err THEN Wrap("parse bind port failed: ")
    ELSE IF r.n < 2 THEN Err("parse bind port failed: bind port too short", <<>>, "")
    ELSE NoErr

\* Lines 165-176: the UDP dial's error is returned as it is.
UDPDialErr(ok, kind) ==
    IF ~ok THEN Err("", <<>>, "transport")
    ELSE IF kind \notin {"UDPConn", "IPConn", "UnixConn"} THEN Err("not a packet conn", <<>>, "")
    ELSE IF kind # "UDPConn" THEN Err("not a udp conn", <<>>, "")
    ELSE NoErr

\* Mutant: a destination is recorded when either condition holds.
NewSocksPacketConn_Or(a) ==
    [conn |-> "tcp", inner |-> "udp", cache |-> 65535,
     hasDest |-> ~IsUnspecified(a.addr) \/ a.port # 0,
     dest |-> IF ~IsUnspecified(a.addr) \/ a.port # 0 THEN a ELSE ZeroSocksAddr]

\* Lines 177-184.
NewSocksPacketConn(a) ==
    [conn |-> "tcp", inner |-> "udp", cache |-> 65535,
     hasDest |-> ~IsUnspecified(a.addr) /\ a.port # 0,
     dest |-> IF ~IsUnspecified(a.addr) /\ a.port # 0 THEN a ELSE ZeroSocksAddr]

\* What the code does with the sockets it opened when it returns an error.
SocksOnError(s) == s

\* Mutant: the call keeps its parsed target in the dialer's addr field.
Enter_StoresTarget(n, a) ==
    /\ pc = "idle"
    /\ calls < MaxCalls
    /\ calls' = calls + 1
    /\ network' = n
    /\ target' = a
    /\ daddr' = IF ParseSocksAddr(a).ok THEN ParseSocksAddr(a).val ELSE daddr
    /\ IF ~NetworkSupported(n)
       THEN /\ Fail(Err("unsupported network type: " \o n, <<>>, ""))
            /\ UNCHANGED <<tcp, trace>>
       ELSE \E ok \in DialOutcomes(String(daddr)) :
                /\ trace' = Append(trace, DialEv("tcp", String(daddr), ok))
                /\ IF ok
                   THEN tcp' = OpenSock(String(daddr)) /\ Goto("writeNego")
                   ELSE UNCHANGED tcp /\ Fail(Wrap("dial faile: "))
    /\ UNCHANGED <<codecVars, parked, udp, negoRes, authRes, addrLen, sAddr, bindAddr, spc>>

\* Lines 43-50: the call starts, checks the network and dials the proxy.
Enter(n, a) ==
    /\ pc = "idle"
    /\ calls < MaxCalls
    /\ calls' = calls + 1
    /\ network' = n
    /\ target' = a
    /\ IF ~NetworkSupported(n)
       THEN /\ Fail(Err("unsupported network type: " \o n, <<>>, ""))
            /\ UNCHANGED <<tcp, trace>>
       ELSE \E ok \in DialOutcomes(String(daddr)) :
                /\ trace' = Append(trace, DialEv("tcp", String(daddr), ok))
                /\ IF ok
                   THEN tcp' = OpenSock(String(daddr)) /\ Goto("writeNego")
                   ELSE UNCHANGED tcp /\ Fail(Wrap("dial faile: "))
    /\ UNCHANGED <<codecVars, parked, daddr, udp, negoRes, authRes, addrLen, sAddr, bindAddr, spc>>

\* Lines 51-55.
WriteNego ==
    /\ pc = "writeNego"
    /\ \E ok \in BOOLEAN :
        /\ trace' = Append(trace, WriteEv(NegoReq, ok))
        /\ IF ok THEN Goto("readNego") /\ UNCHANGED tcp
           ELSE Fail(Wrap("send negotiation request failed: ")) /\ tcp' = SocksOnError(tcp)
    /\ UNCHANGED <<codecVars, parked, daddr, calls, network, target, udp, negoRes, authRes, addrLen, sAddr,
                   bindAddr, spc>>

\* Lines 56-79: read the negotiation reply, select the command, parse the
\* target.
ReadNego(cands) ==
    /\ pc = "readNego"
    /\ \E r \in ReadOutcomes(cands, 2) :
        /\ trace' = Append(trace, ReadEv(r, 2))
        /\ negoRes' = Buf(r.data, 2)
        /\ IF NegoReadErr(r) # NoErr
           THEN Fail(NegoReadErr(r)) /\ tcp' = SocksOnError(tcp) /\ UNCHANGED sAddr
           ELSE IF ParseTargetErr(target) # NoErr
           THEN Fail(ParseTargetErr(target)) /\ tcp' = SocksOnError(tcp) /\ UNCHANGED sAddr
           ELSE sAddr' = ParseSocksAddr(target).val /\ Goto("writeAuth") /\ UNCHANGED tcp
    /\ UNCHANGED <<codecVars, parked, daddr, calls, network, target, udp, authRes, addrLen, bindAddr, spc>>

\* Lines 80-84.
WriteAuth ==
    /\ pc = "writeAuth"
    /\ \E ok \in BOOLEAN :
        /\ trace' = Append(trace, WriteEv(AuthReq(network, sAddr), ok))
        /\ IF ok THEN Goto("readAuth") /\ UNCHANGED tcp
           ELSE /\ Fail(Wrap("send " \o ReqTypeOf(network) \o " request failed: "))
                /\ tcp' = SocksOnError(tcp)
    /\ UNCHANGED <<codecVars, parked, daddr, calls, network, target, udp, negoRes, authRes, addrLen, sAddr,
                   bindAddr, spc>>

\* Lines 85-103.
ReadAuth(cands) ==
    /\ pc = "readAuth"
    /\ \E r \in ReadOutcomes(cands, 4) :
        /\ trace' = Append(trace, ReadEv(r, 4))
        /\ authRes' = Buf(r.data, 4)
        /\ IF AuthReadErr(r, network) # NoErr
           THEN Fail(AuthReadErr(r, network)) /\ tcp' = SocksOnError(tcp)
           ELSE Goto(BodyStep(Buf(r.data, 4)[4])) /\ UNCHANGED tcp
    /\ bindAddr' = ZeroSocksAddr
    /\ UNCHANGED <<codecVars, parked, daddr, calls, network, target, udp, negoRes, addrLen, sAddr, spc>>

\* Lines 104-117.
ReadIPv4(cands) ==
    /\ pc = "readIPv4"
    /\ \E r \in ReadOutcomes(cands, 4) :
        /\ trace' = Append(trace, ReadEv(r, 4))
        /\ IF IPv4ReadErr(r) # NoErr
           THEN Fail(IPv4ReadErr(r)) /\ tcp' = SocksOnError(tcp) /\ UNCHANGED bindAddr
           ELSE bindAddr' = SetAddr(bindAddr, Buf(r.data, 4)) /\ Goto("readPort") /\ UNCHANGED tcp
    /\ UNCHANGED <<codecVars, parked, daddr, calls, network, target, udp, negoRes, authRes, addrLen, sAddr, spc>>

\* Lines 118-126.
ReadFqdnLen(cands) ==
    /\ pc = "readFqdnLen"
    /\ \E r \in ReadOutcomes(cands, 1) :
        /\ trace' = Append(trace, ReadEv(r, 1))
        /\ addrLen' = Buf(r.data, 1)
        /\ IF FqdnLenReadErr(r) # NoErr
           THEN Fail(FqdnLenReadErr(r)) /\ tcp' = SocksOnError(tcp)
           ELSE Goto("readFqdn") /\ UNCHANGED tcp
    /\ UNCHANGED <<codecVars, parked, daddr, calls, network, target, udp, negoRes, authRes, sAddr, bindAddr, spc>>

\* Lines 127-135.
ReadFqdn(cands) ==
    /\ pc = "readFqdn"
    /\ \E r \in ReadOutcomes(cands, addrLen[1]) :
        /\ trace' = Append(trace, ReadEv(r, addrLen[1]))
        /\ IF FqdnReadErr(r, addrLen[1]) # NoErr
           THEN /\ Fail(FqdnReadErr(r, addrLen[1]))
                /\ tcp' = SocksOnError(tcp)
                /\ UNCHANGED bindAddr
           ELSE /\ bindAddr' = SetFqdn(bindAddr, Buf(r.data, addrLen[1]))
                /\ Goto("readPort")
                /\ UNCHANGED tcp
    /\ UNCHANGED <<codecVars, parked, daddr, calls, network, target, udp, negoRes, authRes, addrLen, sAddr, spc>>

\* Lines 136-149.
ReadIPv6(cands) ==
    /\ pc = "readIPv6"
    /\ \E r \in ReadOutcomes(cands, 16) :
        /\ trace' = Append(trace, ReadEv(r, 16))
        /\ IF IPv6ReadErr(r) # NoErr
           THEN Fail(IPv6ReadErr(r)) /\ tcp' = SocksOnError(tcp) /\ UNCHANGED bindAddr
           ELSE bindAddr' = SetAddr(bindAddr, Buf(r.data, 16)) /\ Goto("readPort") /\ UNCHANGED tcp
    /\ UNCHANGED <<codecVars, parked, daddr, calls, network, target, udp, negoRes, authRes, addrLen, sAddr, spc>>

\* Lines 153-164: read the port; a "tcp" call returns conn.
ReadPort(cands) ==
    /\ pc = "readPort"
    /\ \E r \in ReadOutcomes(cands, 2) :
        /\ trace' = Append(trace, ReadEv(r, 2))
        /\ IF PortReadErr(r) # NoErr
           THEN Fail(PortReadErr(r)) /\ tcp' = SocksOnError(tcp) /\ UNCHANGED bindAddr
           ELSE /\ bindAddr' = SetPort(bindAddr, Uint16(Buf(r.data, 2)))
                /\ UNCHANGED tcp
                /\ IF network = "tcp"
                   THEN pc' = "done" /\ ret' = [conn |-> "tcp", err |-> NoErr]
                   ELSE Goto("dialUDP")
    /\ UNCHANGED <<codecVars, parked, daddr, calls, network, target, udp, negoRes, authRes, addrLen, sAddr, spc>>

\* Lines 165-185: dial the relay and wrap both sockets.
DialUDP ==
    /\ pc = "dialUDP"
    /\ \E ok \in DialOutcomes(String(bindAddr)), kind \in UDPHandleKinds :
        /\ trace' = Append(trace, DialEv("udp", String(bindAddr), ok))
        /\ IF UDPDialErr(ok, kind) # NoErr
           THEN /\ Fail(UDPDialErr(ok, kind))
                /\ tcp' = SocksOnError(tcp)
                /\ udp' = IF ok THEN SocksOnError(OpenSock(String(bindAddr))) ELSE udp
                /\ UNCHANGED spc
           ELSE /\ udp' = OpenSock(String(bindAddr))
                /\ spc' = NewSocksPacketConn(sAddr)
                /\ pc' = "done"
                /\ ret' = [conn |-> "spc", err |-> NoErr]
                /\ UNCHANGED tcp
    /\ UNCHANGED <<codecVars, parked, daddr, calls, network, target, negoRes, authRes, addrLen, sAddr, bindAddr>>

\* The caller has the result; the dialer is ready for the next call.
Return ==
    /\ pc = "done"
    /\ pc' = "idle"
    /\ network' = ""
    /\ target' = <<>>
    /\ tcp' = NoSock
    /\ udp' = NoSock
    /\ trace' = <<>>
    /\ negoRes' = Buf(<<>>, 2)
    /\ authRes' = Buf(<<>>, 4)
    /\ addrLen' = Buf(<<>>, 1)
    /\ sAddr' = ZeroSocksAddr
    /\ bindAddr' = ZeroSocksAddr
    /\ spc' = NoSpc
    /\ ret' = NoRet
    /\ UNCHANGED <<codecVars, parked, daddr, calls>>

Next ==
    \/ \E n \in Networks, a \in TargetTexts : Enter(n, a)
    \/ WriteNego
    \/ ReadNego(NegoReplies)
    \/ WriteAuth
    \/ ReadAuth(ReplyHeaders)
    \/ ReadIPv4(V4Bodies)
    \/ ReadFqdnLen(FqdnLens)
    \/ ReadFqdn(FqdnBodies(addrLen[1]))
    \/ ReadIPv6(V6Bodies)
    \/ ReadPort(RawPorts)
    \/ DialUDP
    \/ Return

Spec == Init /\ [][Next]_vars

\* ------------------------------------------------------------ the call's history

Done == pc = "done"

Failed == Done /\ ret.err # NoErr

Succeeded == Done /\ ret.err = NoErr

\* A read that returned without error and filled its buffer.
FullRead(e) == e.op = "read" /\ e.ok /\ Len(e.data) = e.want

\* A read that returned without error and fewer bytes than asked.
ShortRead(e) == e.op = "read" /\ e.ok /\ Len(e.data) < e.want

\* The negotiation reply and the reply header passed their checks.
NegoAccepted == Len(trace) >= 3 /\ FullRead(trace[3]) /\ trace[3].data[1] = 5

HeaderAccepted ==
    /\ Len(trace) >= 5
    /\ FullRead(trace[5])
    /\ SubSeq(trace[5].data, 1, 3) = <<5, 0, 0>>
    /\ trace[5].data[4] \in {1, 3, 4}

ReplyType == trace[5].data[4]

\* Position in the history of the read of the 2-byte bound port.
PortIdx == IF ReplyType = 3 THEN 8 ELSE 7

\* Bytes of the bound address body the reply declares.
BodyLen ==
    CASE ReplyType = 1 -> 4
      [] ReplyType = 3 -> 1 + trace[6].data[1]
      [] ReplyType = 4 -> 16

RECURSIVE SumRead(_, _)
SumRead(tr, i) ==
    IF i = 0 THEN 0
    ELSE SumRead(tr, i - 1) + (IF tr[i].op = "read" THEN Len(tr[i].data) ELSE 0)

\* Bytes the call took from the proxy connection.
Consumed == SumRead(trace, Len(trace))

\* The data of the writes that succeeded, in order.
Written ==
    LET w == SelectSeq(trace, LAMBDA e : e.op = "write" /\ e.ok)
    IN  [i \in 1..Len(w) |-> w[i].data]

\* ------------------------------------------------------------ claims

\* C1: whenever DialContext returns an error after the TCP connection to
\* the proxy was opened, every socket opened during the call (the TCP
\* control connection and, if opened, the UDP socket) has been closed
\* before the return. The code returns without closing: this is violated.
C1_ErrorLeavesNoOpenSocket ==
    Failed => (tcp.state # "open" /\ udp.state # "open")

\* The shape of the i-th transport operation of a call.
C2_EventShape(i) ==
    LET e == trace[i]
    IN  CASE i = 1 -> e.op = "dial" /\ e.net = "tcp"
          [] i = 2 -> e.op = "write" /\ e.data = <<5, 1, 0>>
          [] i = 3 -> e.op = "read" /\ e.want = 2
          [] i = 4 -> e.op = "write" /\ NegoAccepted /\ SubSeq(e.data, 1, 1) = <<5>>
                      /\ e.data # <<5, 1, 0>>
          [] i = 5 -> e.op = "read" /\ e.want = 4
          [] i = 6 -> e.op = "read" /\ HeaderAccepted
                      /\ e.want = (CASE ReplyType = 1 -> 4 [] ReplyType = 3 -> 1
                                     [] ReplyType = 4 -> 16)
          [] i = 7 -> e.op = "read"
                      /\ e.want = (IF ReplyType = 3 THEN trace[6].data[1] ELSE 2)
          [] i = 8 -> IF ReplyType = 3 THEN e.op = "read" /\ e.want = 2
                      ELSE e.op = "dial" /\ e.net = "udp"
          [] i = 9 -> ReplyType = 3 /\ e.op = "dial" /\ e.net = "udp"
          [] OTHER -> FALSE

\* C2: the transport events of a call occur in one fixed order: one TCP
\* dial, write 05 01 00, read 2, write the command request, read 4, read
\* the address body, read the 2-byte port. Every event but the last one
\* completed, the command request is written only after a 2-byte
\* negotiation reply with version 5, and the body is read only after a
\* header that passed its checks; at most one TCP connection is opened.
C2_FixedOrder ==
    /\ \A i \in 1..Len(trace) : C2_EventShape(i)
    /\ \A i \in 1..(Len(trace) - 1) :
          trace[i].ok /\ (trace[i].op = "read" => FullRead(trace[i]))
    /\ Cardinality({ i \in 1..Len(trace) : trace[i].op = "dial" /\ trace[i].net = "tcp" }) <= 1
    /\ (pc \notin {"idle", "done"}) => (Len(trace) >= 1 /\ trace[Len(trace)].ok)

\* A "tcp" call ran the whole exchange for a name of 3 bytes.
C2_Witness ==
    /\ Succeeded /\ network = "tcp"
    /\ Len(trace) = 8 /\ ReplyType = 3 /\ trace[6].data = <<3>>

\* Every operation completed and the proxy's replies are 05 00 and a
\* well-formed success header.
C3_ProxyWellFormed ==
    /\ \A i \in 1..Len(trace) :
          trace[i].ok /\ (trace[i].op = "read" => FullRead(trace[i]))
    /\ Len(trace) >= 3 => trace[3].data = <<5, 0>>
    /\ Len(trace) >= 5 => HeaderAccepted

\* C3: for "tcp", when the proxy answers 05 00 and a well-formed success
\* reply of any address type, and no transport operation fails, the call
\* returns the TCP connection it opened, open, with no error, having
\* written exactly the negotiation request and the command request and
\* having consumed exactly 2 + 4 + body + 2 bytes.
C3_ConnectReturnsConn ==
    (Done /\ network = "tcp" /\ ParseSocksAddr(target).ok /\ C3_ProxyWellFormed)
        => /\ ret = [conn |-> "tcp", err |-> NoErr]
           /\ tcp.state = "open"
           /\ udp.state = "none"
           /\ Cardinality({ i \in 1..Len(trace) : trace[i].op = "dial" }) = 1
           /\ Written = << <<5, 1, 0>>, <<5, 1, 0>> \o Slice(ParseSocksAddr(target).val) >>
           /\ Len(trace) = PortIdx
           /\ Consumed = 2 + 4 + BodyLen + 2

C3_Witness ==
    /\ Done /\ network = "tcp" /\ ParseSocksAddr(target).ok /\ C3_ProxyWellFormed
    /\ ReplyType = 4 /\ Consumed = 24 /\ ret.conn = "tcp"

\* The status table as the claim gives it, and a reply that carries a status.
C4_Table(st) ==
    IF st = 1 THEN "associate failed: general socks server failure"
    ELSE IF st = 2 THEN "connection not allowed by ruleset"
    ELSE IF st = 3 THEN "network unreachable"
    ELSE IF st = 4 \/ st = 9 THEN "host unreachable"
    ELSE IF st = 5 THEN "connection refused"
    ELSE IF st = 6 THEN "ttl expired"
    ELSE IF st = 7 THEN "command not supported"
    ELSE IF st = 8 THEN "address type not supported"
    ELSE "unassigned"

C4_StatusReply ==
    Len(trace) >= 5 /\ FullRead(trace[5]) /\ trace[5].data[1] = 5 /\ trace[5].data[2] # 0

\* C4: a command reply with version 5 and a status other than 0 ends the
\* call with no connection and the message of the status table: 1 general
\* failure, 2 ruleset, 3 network unreachable, 4 and 9 host unreachable,
\* 5 connection refused, 6 TTL expired, 7 command not supported, 8
\* address type not supported, "unassigned" otherwise; nothing is read
\* after the header.
C4_StatusError ==
    C4_StatusReply
        => /\ Done
           /\ ret.conn = "nil"
           /\ ret.err.msg = ReqTypeOf(network) \o " failed: " \o C4_Table(trace[5].data[2])
           /\ Len(trace) = 5
           /\ Consumed = 6

C4_Witness ==
    C4_StatusReply /\ trace[5].data[2] = 9 /\ network = "udp" /\ Done

\* C5: a network other than "tcp" and "udp" ends the call with an
\* unsupported-network error and no connection, and no transport
\* operation was performed: nothing dialled, written or read.
C5_UnsupportedNetwork ==
    (calls > 0 /\ pc # "idle" /\ network \notin {"tcp", "udp"})
        => /\ Done
           /\ ret.conn = "nil"
           /\ ret.err = Err("unsupported network type: " \o network, <<>>, "")
           /\ trace = <<>>
           /\ tcp = NoSock
           /\ udp = NoSock

C5_Witness == Done /\ network = "tcp4" /\ ret.err # NoErr

\* The message of the length check of the field read at position i.
C6_ShortMsg(i) ==
    CASE i = 3 -> "negotiation response too short"
      [] i = 5 -> ReqTypeOf(network) \o " response too short"
      [] i = 6 /\ ReplyType = 1 -> "parse ipv4 bind address failed: bind address too short"
      [] i = 6 /\ ReplyType = 3 -> "parse fqdn bind address failed: length is zero"
      [] i = 6 /\ ReplyType = 4 -> "parse ipv6 bind address failed: bind address too short"
      [] i = 7 /\ ReplyType = 3 -> "parse fqdn bind address failed: bind address too short"
      [] i = 7 /\ ReplyType # 3 -> "parse bind port failed: bind port too short"
      [] i = 8 -> "parse bind port failed: bind port too short"

\* C6: for every reply field (negotiation reply, reply header, IPv4 body,
\* FQDN length byte, FQDN body, IPv6 body, port), a read that delivers
\* fewer bytes than the field's width ends the call with the error of
\* that field's length check and no connection; no call succeeds after a
\* short read. (The error of the length byte reads "length is zero".)
C6_ShortReadFails ==
    /\ \A i \in 1..Len(trace) :
          ShortRead(trace[i])
              => /\ Done
                 /\ i = Len(trace)
                 /\ ret.conn = "nil"
                 /\ ret.err = Err(C6_ShortMsg(i), <<>>, "")
                 /\ spc = NoSpc
                 /\ udp = NoSock
    /\ Succeeded => \A i \in 1..Len(trace) : trace[i].op = "read" => FullRead(trace[i])

\* The proxy sent 2 bytes of a name it declared 3 bytes long.
C6_Witness ==
    /\ Done /\ Len(trace) = 7 /\ ReplyType = 3
    /\ trace[6].data = <<3>> /\ ShortRead(trace[7]) /\ Len(trace[7].data) = 2

\* C7: a success reply of type FQDN whose length byte is 0 makes the call
\* fail with no connection, for "tcp" and for "udp". The code checks the
\* count of bytes read, not the length read: this is violated.
C7_ZeroLengthFqdnFails ==
    (Done /\ HeaderAccepted /\ ReplyType = 3
          /\ Len(trace) >= 6 /\ FullRead(trace[6]) /\ trace[6].data = <<0>>)
        => (Failed /\ ret.conn = "nil")

\* C8: a negotiation reply with version 5 and a method other than 0x00
\* makes the call fail with no connection, whatever the proxy does next.
\* The code never looks at the method byte: this is violated.
C8_MethodRefusedFails ==
    (Done /\ Len(trace) >= 3 /\ FullRead(trace[3])
          /\ trace[3].data[1] = 5 /\ trace[3].data[2] # 0)
        => (Failed /\ ret.conn = "nil")

\* The write operations of the call, in order.
C9_Writes == SelectSeq(trace, LAMBDA e : e.op = "write")

\* C9: the command request written is 05, the command, 00 and the
\* encoding of the parsed target; the command is 0x01 exactly for "tcp"
\* and 0x03 exactly for "udp", and never 0x02.
C9_CommandByte ==
    /\ Len(C9_Writes) <= 2
    /\ Len(C9_Writes) >= 1 => C9_Writes[1].data = <<5, 1, 0>>
    /\ Len(C9_Writes) = 2 =>
          LET req == C9_Writes[2].data
          IN  /\ ParseSocksAddr(target).ok
              /\ Len(req) > 3
              /\ req[1] = 5 /\ req[3] = 0
              /\ req[2] # 2
              /\ (req[2] = 1) <=> (network = "tcp")
              /\ (req[2] = 3) <=> (network = "udp")
              /\ SubSeq(req, 4, Len(req)) = Slice(ParseSocksAddr(target).val)

\* A "udp" call wrote an ASSOCIATE request for a domain-name target.
C9_Witness ==
    /\ network = "udp" /\ Len(C9_Writes) = 2
    /\ SubSeq(C9_Writes[2].data, 1, 4) = <<5, 3, 0, 3>>

\* The bound port and host of the reply, as the history holds them.
C10_BoundPort == Uint16(trace[PortIdx].data)

C10_BoundNamed ==
    ReplyType = 3 => /\ trace[7].data # <<>>
                     /\ ~Contains(trace[7].data, Colon)

C10_HostIsBound(host) ==
    CASE ReplyType = 1 -> ParseAddr(host) = [ok |-> TRUE, addr |-> trace[6].data]
      [] ReplyType = 3 -> host = trace[7].data
      [] ReplyType = 4 -> ParseAddr(host).ok /\ Unmap(ParseAddr(host).addr) = Unmap(trace[6].data)

\* C10: for "udp", after a handshake with a bound address of any of the
\* three types, the call dials one UDP socket to exactly the bound host
\* and port of the reply, and when that dial succeeds it returns a wrapper
\* of that socket and the TCP control connection, which is still open.
\* The text dialled for an IPv6 bound address has no brackets and denotes
\* no endpoint: this is violated.
C10_AssociateDialsBound ==
    (Done /\ network = "udp" /\ HeaderAccepted /\ Len(trace) = PortIdx + 1 /\ C10_BoundNamed)
        => LET e == trace[Len(trace)]
               t == DialTarget(e.data)
           IN  /\ e.op = "dial" /\ e.net = "udp"
               /\ t.ok
               /\ C10_HostIsBound(t.host)
               /\ t.port = C10_BoundPort
               /\ e.ok => /\ ret = [conn |-> "spc", err |-> NoErr]
                          /\ spc.conn = "tcp" /\ spc.inner = "udp"
                          /\ tcp.state = "open"
                          /\ udp = [state |-> "open", host |-> t.host, port |-> t.port]

\* The target text names the "any" address: 0.0.0.0 or ::, bare or
\* bracketed, before its last colon.
C11_TargetHost == SubSeq(target, 1, LastIndexByte(target, Colon) - 1)

C11_TargetIsAny ==
    C11_TargetHost \in { <<48, 46, 48, 46, 48, 46, 48>>,                 \* "0.0.0.0"
                         <<91, 58, 58, 93>> }                            \* "[::]"

C11_TargetPort == ParseUint16(SubSeq(target, LastIndexByte(target, Colon) + 1, Len(target))).val

\* C11: on a successful "udp" dial the wrapper's fixed destination is the
\* parsed target exactly when the target is not the "any" address and its
\* port is not 0; otherwise none is recorded. IPv4, IPv6 and domain-name
\* targets alike.
C11_FixedDestination ==
    (Done /\ ret.conn = "spc")
        => /\ spc.hasDest <=> (~C11_TargetIsAny /\ C11_TargetPort # 0)
           /\ spc.hasDest => spc.dest = ParseSocksAddr(target).val
           /\ ~spc.hasDest => spc.dest = ZeroSocksAddr

\* A "udp" dial for the domain-name target "a.b:0" succeeded.
C11_Witness ==
    /\ Done /\ ret.conn = "spc"
    /\ target = <<97, 46, 98, 58, 48>>
    /\ ~spc.hasDest

\* C16: when the negotiation reply or the command reply header carries a
\* version v other than 5, the call fails with a version-mismatch error
\* that reports v. The code prints negoReq[0], the version it sent: this
\* is violated.
C16_VersionReported ==
    /\ (Done /\ Len(trace) = 3 /\ FullRead(trace[3]) /\ trace[3].data[1] # 5)
          => ret = [conn |-> "nil",
                    err |-> Err("unsupported negotiation response version: ",
                                <<trace[3].data[1]>>, "")]
    /\ (Done /\ Len(trace) = 5 /\ FullRead(trace[5]) /\ trace[5].data[1] # 5)
          => ret = [conn |-> "nil",
                    err |-> Err("unsupported " \o ReqTypeOf(network) \o " response version: ",
                                <<trace[5].data[1]>>, "")]

\* The phase whose transport operation failed, from the history.
C17_FailedPhase ==
    LET i == Len(trace)
        e == trace[i]
    IN  IF e.op = "dial" THEN (IF e.net = "tcp" THEN "tcp dial" ELSE "udp dial")
        ELSE IF e.op = "write" THEN (IF i = 2 THEN "negotiation write" ELSE "command write")
        ELSE IF i = 3 THEN "negotiation read"
        ELSE IF i = 5 THEN "command read"
        ELSE IF i = 6 /\ ReplyType = 1 THEN "ipv4 read"
        ELSE IF i = 6 /\ ReplyType = 3 THEN "fqdn length read"
        ELSE IF i = 6 /\ ReplyType = 4 THEN "ipv6 read"
        ELSE IF i = 7 /\ ReplyType = 3 THEN "fqdn read"
        ELSE "port read"

\* The phase a stage label names.
C17_PhaseOfLabel(msg) ==
    CASE msg = "dial faile: " -> "tcp dial"
      [] msg = "send negotiation request failed: " -> "negotiation write"
      [] msg = "receive negotiation response failed: " -> "negotiation read"
      [] msg \in {"send connect request failed: ", "send associate request failed: "}
            -> "command write"
      [] msg \in {"receive connect response failed: ", "receive associate response failed: "}
            -> "command read"
      [] msg = "parse ipv4 bind address failed: " -> "ipv4 read"
      [] msg = "parse fqdn bind address length failed: " -> "fqdn length read"
      [] msg = "parse fqdn bind address failed: " -> "fqdn read"
      [] msg = "parse ipv6 bind address failed: " -> "ipv6 read"
      [] msg = "parse bind port failed: " -> "port read"
      [] OTHER -> "none"

\* C17: every transport failure (TCP dial, negotiation write and read,
\* command write and read, address and port reads, UDP relay dial) is
\* returned wrapped with a stage label that names its phase and no other.
\* The error of the UDP dial is returned with no label: this is violated.
C17_ErrorNamesPhase ==
    (Done /\ Len(trace) >= 1 /\ ~trace[Len(trace)].ok)
        => /\ ret.conn = "nil"
           /\ ret.err.cause = "transport"
           /\ ret.err.msg # ""
           /\ C17_PhaseOfLabel(ret.err.msg) = C17_FailedPhase

\* ------------------------------------------------------------ the codec on its own
\* A user of the address codec builds one SocksAddr, mutates it, and
\* serialises it; the bytes of Slice are read back by the reply decoder of
\* DialContext and the text of String by ParseSocksAddr.

\* How many SetAddr, SetFqdn and SetPort calls the user makes on one value.
MaxSets == 2

\* A name of n bytes, "aaa...".
NameOfLen(n) == [i \in 1..n |-> 97]

ParseTexts ==
    TargetTexts \cup ProxyTexts
    \cup { <<58, 56, 48>>,                                                  \* ":80"
           <<97, 46, 98, 58, 43, 56, 48>>,                               \* "a.b:+80"
           <<97, 46, 98, 58, 54, 53, 53, 51, 54>>,                   \* "a.b:65536"
           NameOfLen(255) \o <<58, 53, 51>>,                            \* 255 bytes, ":53"
           NameOfLen(256) \o <<58, 53, 51>> }                           \* 256 bytes, ":53"

FqdnArgs == { <<>>, <<97, 46, 98>>, NameOfLen(255), NameOfLen(256) }

AddrArgs == V4Addrs \cup {V6Loopback, V6Any, V6Mapped}

PortArgs == {0, 53, 65535}

\* conn.Read into w bytes when the stream holds b and pos - 1 bytes of it
\* were read: what is left, at most w bytes; the end of the stream is an
\* error.
Take(b, pos, w) ==
    LET last == IF pos + w - 1 <= Len(b) THEN pos + w - 1 ELSE Len(b)
        data == SubSeq(b, pos, last)
    IN  [n |-> Len(data), data |-> data, err |-> w > 0 /\ Len(data) = 0]

\* Lines 102-161 of DialContext on the bytes b of an address: the type
\* byte (authRes[3]), the body by type, the port.
DecodeReply(b) ==
    LET bad == [ok |-> FALSE, val |-> ZeroSocksAddr, used |-> 0]
        atyp == b[1]
        r4 == Take(b, 2, 4)
        rl == Take(b, 2, 1)
        len == Buf(rl.data, 1)[1]
        rf == Take(b, 3, len)
        r6 == Take(b, 2, 16)
        bodyErr == CASE atyp = TypeIPv4 -> IPv4ReadErr(r4)
                     [] atyp = TypeFqdn -> IF FqdnLenReadErr(rl) # NoErr THEN FqdnLenReadErr(rl)
                                           ELSE FqdnReadErr(rf, len)
                     [] atyp = TypeIPv6 -> IPv6ReadErr(r6)
        bound == CASE atyp = TypeIPv4 -> SetAddr(ZeroSocksAddr, Buf(r4.data, 4))
                   [] atyp = TypeFqdn -> SetFqdn(ZeroSocksAddr, Buf(rf.data, len))
                   [] atyp = TypeIPv6 -> SetAddr(ZeroSocksAddr, Buf(r6.data, 16))
        next == CASE atyp = TypeIPv4 -> 6
                  [] atyp = TypeFqdn -> 3 + len
                  [] atyp = TypeIPv6 -> 18
        rp == Take(b, next, 2)
    IN  IF b = <<>> \/ atyp \notin {TypeIPv4, TypeFqdn, TypeIPv6} THEN bad
        ELSE IF bodyErr # NoErr THEN bad
        ELSE IF PortReadErr(rp) # NoErr THEN bad
        ELSE [ok |-> TRUE, val |-> SetPort(bound, Uint16(Buf(rp.data, 2))), used |-> next + 1]

dialerVars == <<daddr, calls, pc, network, target, tcp, udp, trace, negoRes, authRes,
                addrLen, sAddr, bindAddr, spc, ret, parked>>

\* A constructor gave v.
Built(v, by, text) ==
    /\ obj' = v
    /\ hist' = [by |-> by, text |-> text, last |-> "none", id |-> <<>>, n |-> 0]
    /\ out' = NoOut
    /\ UNCHANGED dialerVars

\* var a SocksAddr
DoZero ==
    /\ hist.by = "none"
    /\ Built(ZeroSocksAddr, "zero", <<>>)

DoParse(t) ==
    /\ hist.by = "none"
    /\ ParseSocksAddr(t).ok
    /\ Built(ParseSocksAddr(t).val, "ParseSocksAddr", t)

DoFromFqdnPort(f, p) ==
    /\ hist.by = "none"
    /\ Built(SocksAddrFromFqdnPort(f, p), "SocksAddrFromFqdnPort", f)

DoFromAddrPort(a, p) ==
    /\ hist.by = "none"
    /\ Built(SocksAddrFromAddrPort(a, p), "SocksAddrFromAddrPort", <<>>)

\* The user holds a value and may still call a mutator on it.
MaySet == hist.by # "none" /\ hist.n < MaxSets

\* A mutator ran on obj; what was serialised before is stale.
Mutated(v, last, id) ==
    /\ obj' = v
    /\ hist' = [hist EXCEPT !.last = last, !.id = id, !.n = @ + 1]
    /\ out' = NoOut
    /\ UNCHANGED dialerVars

DoSetAddr(a) ==
    /\ MaySet
    /\ Mutated(SetAddr(obj, a), "SetAddr", a)

DoSetFqdn(f) ==
    /\ MaySet
    /\ Mutated(SetFqdn(obj, f), "SetFqdn", f)

DoSetPort(p) ==
    /\ MaySet
    /\ Mutated(SetPort(obj, p), hist.last, hist.id)

\* obj.Slice(), and the bytes read back by the reply decoder.
DoSlice ==
    /\ hist.by # "none"
    /\ ~out.sliced
    /\ out' = [out EXCEPT !.sliced = TRUE, !.slice = Slice(obj), !.dec = DecodeReply(Slice(obj))]
    /\ UNCHANGED <<obj, hist, dialerVars>>

\* obj.String(), and the text parsed again.
DoString ==
    /\ hist.by # "none"
    /\ ~out.rendered
    /\ out' = [out EXCEPT !.rendered = TRUE, !.str = String(obj),
                          !.re = ParseSocksAddr(String(obj))]
    /\ UNCHANGED <<obj, hist, dialerVars>>

CodecInit ==
    /\ daddr = ParseSocksAddr(<<49, 48, 46, 48, 46, 48, 46, 50, 58, 49, 48, 56, 48>>).val
    /\ NoCall
    /\ CodecIdle

CodecNext ==
    \/ DoZero
    \/ \E t \in ParseTexts : DoParse(t)
    \/ \E f \in FqdnArgs, p \in PortArgs : DoFromFqdnPort(f, p)
    \/ \E a \in AddrArgs, p \in PortArgs : DoFromAddrPort(a, p)
    \/ \E a \in AddrArgs : DoSetAddr(a)
    \/ \E f \in FqdnArgs : DoSetFqdn(f)
    \/ \E p \in PortArgs : DoSetPort(p)
    \/ DoSlice
    \/ DoString

CodecSpec == CodecInit /\ [][CodecNext]_vars

\* obj came out of ParseSocksAddr and no mutator touched it.
Parsed == hist.by = "ParseSocksAddr" /\ hist.n = 0

\* C12: for every string ParseSocksAddr accepts, the bytes of Slice read
\* by the reply decoder (type byte, body by type, port) give back an
\* address equal to the parsed one: same variant, same address or name,
\* same port, and no byte left over. A text with an empty host is
\* accepted and encoded as a bare type byte 04: this is violated.
C12_RoundTrip ==
    (Parsed /\ out.sliced)
        => /\ out.dec.ok
           /\ out.dec.val = obj
           /\ out.dec.used = Len(out.slice)

\* C13: a SocksAddr, however built (ParseSocksAddr, SocksAddrFromFqdnPort,
\* SocksAddrFromAddrPort, the zero value) and mutated (SetAddr, SetFqdn,
\* SetPort), has exactly one of address and name populated. The zero
\* value has neither and the setters do not clear the other field: this
\* is violated.
C13_ExactlyOne ==
    hist.by # "none" => ((obj.addr # ZeroAddr) # (Len(obj.fqdn) > 0))

\* C14: after SetAddr and SetFqdn calls, Slice and String serialise the
\* identity set last: the address of the last SetAddr, or the non-empty
\* name (of at most 255 bytes) of the last SetFqdn. A name set earlier
\* stays and is preferred to an address set later: this is violated.
C14_LastSetWins ==
    /\ (hist.last = "SetAddr" /\ out.sliced)
          => out.slice = (IF Is4(Unmap(hist.id)) THEN <<1>> ELSE <<4>>)
                         \o Unmap(hist.id) \o <<obj.port \div 256, obj.port % 256>>
    /\ (hist.last = "SetAddr" /\ out.rendered)
          => out.str = AddrString(Unmap(hist.id)) \o Colon \o Dec(obj.port)
    /\ (hist.last = "SetFqdn" /\ Len(hist.id) \in 1..255 /\ out.sliced)
          => out.slice = <<3, Len(hist.id)>> \o hist.id
                         \o <<obj.port \div 256, obj.port % 256>>
    /\ (hist.last = "SetFqdn" /\ Len(hist.id) \in 1..255 /\ out.rendered)
          => out.str = hist.id \o Colon \o Dec(obj.port)

\* C15: for every SocksAddr ParseSocksAddr returns, Slice is a well-formed
\* SOCKS5 address: type 01 and 4 bytes, type 03 and a length L >= 1 and L
\* bytes, or type 04 and 16 bytes, then the port in 2 bytes big-endian;
\* an IPv4-mapped IPv6 text is encoded with type 01. The text ":80" is
\* accepted and encoded as 04 00 50: this is violated.
C15_WellFormed ==
    (Parsed /\ out.sliced)
        => LET b == out.slice
           IN  /\ Len(b) >= 3
               /\ b[1] \in {1, 3, 4}
               /\ b[1] = 1 => Len(b) = 1 + 4 + 2
               /\ b[1] = 3 => (Len(b) >= 4 /\ b[2] >= 1 /\ Len(b) = 2 + b[2] + 2)
               /\ b[1] = 4 => Len(b) = 1 + 16 + 2
               /\ SubSeq(b, Len(b) - 1, Len(b)) = <<obj.port \div 256, obj.port % 256>>
               /\ hist.text = <<91, 58, 58, 102, 102, 102, 102, 58, 49, 48, 46, 48, 46, 48, 46, 49, 93, 58, 56, 48>>
                     => SubSeq(b, 1, 5) = <<1, 10, 0, 0, 1>>

\* C19: for every SocksAddr a that ParseSocksAddr returns for an IPv4, an
\* IPv6 or a domain-name text, a.String() is accepted by ParseSocksAddr
\* and parses to a. An IPv6 address is rendered without brackets, which
\* ParseSocksAddr refuses: this is violated.
C19_StringReparses ==
    (Parsed /\ (obj.addr # ZeroAddr \/ Len(obj.fqdn) > 0) /\ out.rendered)
        => (out.re.ok /\ out.re.val = obj)

\* C20: for every SocksAddr that holds a name, however built, the length
\* byte of Slice is the byte length of the name and exactly that many
\* name bytes follow; the length never wraps modulo 256. A name of 256
\* bytes given to SocksAddrFromFqdnPort or SetFqdn gets length byte 0:
\* this is violated.
C20_LengthByte ==
    (Len(obj.fqdn) > 0 /\ out.sliced)
        => /\ SubSeq(out.slice, 1, 2) = <<3, Len(obj.fqdn)>>
           /\ SubSeq(out.slice, 3, Len(out.slice) - 2) = obj.fqdn

\* ------------------------------------------------------------ two calls at a time
\* Two goroutines call DialContext on one SocksDialer. One call's locals
\* are the variables the actions work on, the other call's are parked;
\* the scheduler exchanges them at any moment between two transport
\* operations.

Switch ==
    /\ ThisCall # parked
    /\ parked' = ThisCall
    /\ pc' = parked.pc
    /\ network' = parked.network
    /\ target' = parked.target
    /\ tcp' = parked.tcp
    /\ udp' = parked.udp
    /\ trace' = parked.trace
    /\ negoRes' = parked.negoRes
    /\ authRes' = parked.authRes
    /\ addrLen' = parked.addrLen
    /\ sAddr' = parked.sAddr
    /\ bindAddr' = parked.bindAddr
    /\ spc' = parked.spc
    /\ ret' = parked.ret
    /\ UNCHANGED <<daddr, calls, codecVars>>

\* What the proxy and the callers do while two calls are in flight.
ConcNetworks == {"tcp", "udp"}

ConcTargets == { <<97, 46, 98, 58, 53, 51>>, <<49, 48, 46, 48, 46, 48, 46, 49, 58, 56, 48>> }   \* "a.b:53", "10.0.0.1:80"

ConcNegoReplies == { <<5, 0>> }

ConcHeaders == { <<5, 0, 0, 1>>, <<5, 0, 0, 3>>, <<5, 0, 0, 4>>, <<5, 1, 0, 1>> }

ConcV4Bodies == { <<10, 0, 0, 2>> }

ConcFqdnLens == { <<1>> }

ConcV6Bodies == { V6Loopback }

ConcPorts == { <<4, 56>> }

ConcInit ==
    /\ daddr = ParseSocksAddr(<<112, 114, 111, 120, 121, 58, 49, 48, 56, 48>>).val   \* "proxy:1080"
    /\ NoCall
    /\ CodecIdle

ConcNext ==
    \/ \E n \in ConcNetworks, a \in ConcTargets : Enter(n, a)
    \/ WriteNego
    \/ ReadNego(ConcNegoReplies)
    \/ WriteAuth
    \/ ReadAuth(ConcHeaders)
    \/ ReadIPv4(ConcV4Bodies)
    \/ ReadFqdnLen(ConcFqdnLens)
    \/ ReadFqdn(FqdnBodies(addrLen[1]))
    \/ ReadIPv6(ConcV6Bodies)
    \/ ReadPort(ConcPorts)
    \/ DialUDP
    \/ Return
    \/ Switch

ConcSpec == ConcInit /\ [][ConcNext]_vars

\* The read a history event records.
ReadOf(e) == [n |-> Len(e.data), data |-> e.data, err |-> ~e.ok]

\* DialContext(ctx, n, a) run alone on a dialer of address d, when its
\* transport operations have the outcomes recorded in t: the texts it
\* dials, the bytes it writes, and what it returns (NoRet while it has not
\* returned).
RunAlone(n, a, d, t) ==
    LET k == Len(t)
        sa == ParseSocksAddr(a).val
        step == BodyStep(Buf(t[5].data, 4)[4])
        named == step = "readFqdnLen"
        len == Buf(t[6].data, 1)[1]
        pi == IF named THEN 8 ELSE 7
        body == CASE step = "readIPv4" -> SetAddr(ZeroSocksAddr, Buf(t[6].data, 4))
                  [] step = "readFqdnLen" -> SetFqdn(ZeroSocksAddr, Buf(t[7].data, len))
                  [] step = "readIPv6" -> SetAddr(ZeroSocksAddr, Buf(t[6].data, 16))
        bound == SetPort(body, Uint16(Buf(t[pi].data, 2)))
        errAt == CASE k = 1 -> IF t[1].ok THEN NoErr ELSE Wrap("dial faile: ")
                   [] k = 2 -> IF t[2].ok THEN NoErr
                               ELSE Wrap("send negotiation request failed: ")
                   [] k = 3 -> IF NegoReadErr(ReadOf(t[3])) # NoErr
                               THEN NegoReadErr(ReadOf(t[3])) ELSE ParseTargetErr(a)
                   [] k = 4 -> IF t[4].ok THEN NoErr
                               ELSE Wrap("send " \o ReqTypeOf(n) \o " request failed: ")
                   [] k = 5 -> AuthReadErr(ReadOf(t[5]), n)
                   [] k = 6 -> (CASE step = "readIPv4" -> IPv4ReadErr(ReadOf(t[6]))
                                  [] step = "readFqdnLen" -> FqdnLenReadErr(ReadOf(t[6]))
                                  [] step = "readIPv6" -> IPv6ReadErr(ReadOf(t[6])))
                   [] k = 7 /\ named -> FqdnReadErr(ReadOf(t[7]), len)
                   [] k = pi -> PortReadErr(ReadOf(t[pi]))
                   [] k = pi + 1 -> UDPDialErr(t[k].ok, "UDPConn")
    IN  IF ~NetworkSupported(n)
        THEN [dials |-> <<>>, written |-> <<>>, spc |-> NoSpc,
              ret |-> [conn |-> "nil",
                       err |-> Err("unsupported network type: " \o n, <<>>, "")]]
        ELSE [dials |-> <<String(d)>> \o (IF k >= 6 /\ k = pi + 1 THEN <<String(bound)>> ELSE <<>>),
              written |-> (IF k >= 2 /\ t[2].ok THEN <<NegoReq>> ELSE <<>>)
                          \o (IF k >= 4 /\ t[4].ok THEN <<AuthReq(n, sa)>> ELSE <<>>),
              spc |-> IF k >= 6 /\ k = pi + 1 /\ errAt = NoErr
                      THEN NewSocksPacketConn(sa) ELSE NoSpc,
              ret |-> IF errAt # NoErr THEN [conn |-> "nil", err |-> errAt]
                      ELSE IF k >= 6 /\ k = pi /\ n = "tcp" THEN [conn |-> "tcp", err |-> NoErr]
                      ELSE IF k >= 6 /\ k = pi + 1 THEN [conn |-> "spc", err |-> NoErr]
                      ELSE NoRet]

\* The texts dialled and the bytes written in a history.
DialsOf(t) ==
    LET w == SelectSeq(t, LAMBDA e : e.op = "dial")
    IN  [i \in 1..Len(w) |-> w[i].data]

WritesOf(t) ==
    LET w == SelectSeq(t, LAMBDA e : e.op = "write" /\ e.ok)
    IN  [i \in 1..Len(w) |-> w[i].data]

\* The call c did what it does when run alone with the same outcomes.
AsAlone(c) ==
    c.pc # "idle"
        => LET alone == RunAlone(c.network, c.target, daddr, c.trace)
           IN  /\ DialsOf(c.trace) = alone.dials
               /\ WritesOf(c.trace) = alone.written
               /\ c.spc = alone.spc
               /\ c.ret = alone.ret
               /\ (c.pc = "done") = (alone.ret # NoRet)

\* A step of one call leaves the other call's locals and the dialer alone;
\* a switch exchanges the two calls' locals.
OthersKept ==
    /\ daddr' = daddr
    /\ \/ parked' = parked
       \/ parked' = ThisCall /\ ThisCall' = parked

\* C18: when two or more DialContext calls on one SocksDialer are
\* interleaved, each call dials, writes and returns what the same call
\* returns when run alone with the same transport outcomes, a step of one
\* call changes nothing of the other call, and no step changes the
\* dialer's proxy address.
C18_Independent ==
    /\ [](AsAlone(ThisCall) /\ AsAlone(parked))
    /\ [][OthersKept]_vars

\* Both calls are past the negotiation, with different networks and
\* targets, and one of them has returned.
C18_Witness ==
    /\ pc = "readAuth"
    /\ parked.pc = "done"
    /\ parked.ret.conn = "spc"
    /\ network # parked.network
    /\ target # parked.target

====
